---------------------------- MODULE Spec2Model ----------------------------
(***************************************************************************)
(* ShowGlobals (src/tools/win/ShowGlobals/ShowGlobals.cc): wmain parses    *)
(* its arguments, initializes COM and DIA2, and DumpInterestingGlobals     *)
(* enumerates the static data symbols of a PDB, reports the duplicated     *)
(* (name, size) groups by wasted bytes and the largest symbols by size.    *)
(*                                                                         *)
(* Symbol names are sequences of wchar_t code points, so that wcscmp is    *)
(* modelled by what it computes.  std::sort is not stable: its result is   *)
(* any permutation that is ordered under the comparator, so every sort is  *)
(* a choice among those permutations.  The DIA2 / COM calls are external:  *)
(* each may succeed or fail.                                               *)
(*                                                                         *)
(* size_t / ULONGLONG arithmetic: every size of the model is far below     *)
(* 2^64 / MaxSymbols, so no product wraps.  The one subtraction on size_t, *)
(* repeat_count - folding_count, is kept as the integer difference; it     *)
(* equals the size_t result exactly when it is >= 0.                       *)
(***************************************************************************)
EXTENDS Integers, Sequences, FiniteSets, TLC

\* Most symbol records (pushed or rejected by get_type) one enumeration yields.
MaxSymbols == 3

\* const int kWastageThreshold = 100;
kWastageThreshold == 100
\* const int kBigSizeThreshold = 500;
kBigSizeThreshold == 500

\* argv tokens.
PROG == "ShowGlobals.exe"
FLAG == "--show_folded_constants"
PDB  == "file.pdb"
\* const wchar_t* filename = nullptr;
NoFile == "nullptr"
\* wmain has not returned yet.
Running == "running"

\* The command lines: argv[0] is the program name, then the path and the flag,
\* each present or absent.
ArgVectors ==
    { <<PROG>>, <<PROG, FLAG>>, <<PROG, PDB>>, <<PROG, PDB, FLAG>> }

\* Symbol attributes the PDB may hold: names "a" and "ab" as code points, sizes
\* around both thresholds, a zero and a non-zero offset.
Names    == { <<97>>, <<97, 98>> }
Sizes    == { 100, 499, 500, 1000 }
Offsets  == { 0, 16 }
Sections == { 1 }

\* struct SymbolData
SymbolData(size, section, offset, name) ==
    [size |-> size, section |-> section, offset |-> offset, name |-> name]

\* struct RepeatData
RepeatData(repeat_count, folding_count, bytes_wasted, name) ==
    [repeat_count |-> repeat_count, folding_count |-> folding_count,
     bytes_wasted |-> bytes_wasted, name |-> name]

VARIABLES
    pc,                     \* position in wmain / DumpInterestingGlobals
    argv,                   \* wmain's argument vector
    i,                      \* wmain's loop index (0-based)
    show_folded_constants,  \* wmain local
    filename,               \* wmain local
    calls,                  \* COM / DIA2 calls made so far, with their outcome
    out,                    \* lines written by wprintf, in order
    exit_code,              \* value wmain returned
    symbols,                \* std::vector<SymbolData> symbols
    runs,                   \* locals of each iteration of the scan loop
    repeats                 \* std::vector<RepeatData> repeats

vars == <<pc, argv, i, show_folded_constants, filename, calls, out, exit_code,
          symbols, runs, repeats>>

-----------------------------------------------------------------------------
\* Pure helpers

\* wcscmp on the two names: negative, zero or positive.
RECURSIVE StringCompare(_, _)
StringCompare(lhs, rhs) ==
    IF lhs = <<>> /\ rhs = <<>> THEN 0
    ELSE IF lhs = <<>> THEN -1
    ELSE IF rhs = <<>> THEN 1
    ELSE IF Head(lhs) < Head(rhs) THEN -1
    ELSE IF Head(lhs) > Head(rhs) THEN 1
    ELSE StringCompare(Tail(lhs), Tail(rhs))

\* A NameCompare that forgets the size tiebreaker.
NameCompareNoSize(lhs, rhs) ==
    StringCompare(lhs.name, rhs.name) < 0

NameCompare(lhs, rhs) ==
    LET nameCompare == StringCompare(lhs.name, rhs.name)
    IN  IF nameCompare = 0
        THEN lhs.size < rhs.size
        ELSE nameCompare < 0

\* A SizeCompare that orders by name before size.
SizeCompareNameFirst(lhs, rhs) ==
    IF StringCompare(lhs.name, rhs.name) = 0
    THEN lhs.size < rhs.size
    ELSE StringCompare(lhs.name, rhs.name) < 0

SizeCompare(lhs, rhs) ==
    IF lhs.size = rhs.size
    THEN StringCompare(lhs.name, rhs.name) < 0
    ELSE lhs.size < rhs.size

\* RepeatData::operator<
RepeatLess(lhs, rhs) ==
    lhs.bytes_wasted < rhs.bytes_wasted

\* The rearrangements of seq: what a sort may leave, order apart.
Rearrangements(seq) ==
    { [k \in 1..Len(seq) |-> seq[f[k]]] : f \in Permutations(1..Len(seq)) }

\* std::sort(symbols.begin(), symbols.end(), NameCompare): the sort is not
\* stable, so any rearrangement that NameCompare orders may result.
SortedByName(seq) ==
    { s \in Rearrangements(seq) :
        \A a \in 1..Len(s) : \A b \in 1..Len(s) :
            a < b => ~NameCompare(s[b], s[a]) }

\* std::sort(symbols.begin(), symbols.end(), SizeCompare)
SortedBySize(seq) ==
    { s \in Rearrangements(seq) :
        \A a \in 1..Len(s) : \A b \in 1..Len(s) :
            a < b => ~SizeCompare(s[b], s[a]) }

\* std::sort(repeats.begin(), repeats.end())
SortedByWaste(seq) ==
    { s \in Rearrangements(seq) :
        \A a \in 1..Len(s) : \A b \in 1..Len(s) :
            a < b => ~RepeatLess(s[b], s[a]) }

\* std::reverse
Reverse(seq) ==
    [k \in 1..Len(seq) |-> seq[Len(seq) + 1 - k]]


\* One wprintf call: the kind of line and its tab-separated fields. The field
\* list of a row is the list of conversions of its format string.
Line(kind, fields) ==
    [kind |-> kind, fields |-> fields]

\* wprintf(L"#Dups\t#Folded\tDupSize\t  Size\tSection\tSymbol name\tPDB name\n")
HeaderLine ==
    Line("header", <<"#Dups", "#Folded", "DupSize", "Size", "Section",
                     "Symbol name", "PDB name">>)

\* wprintf(L"%llu\t%d\t%llu\t%6u\t%u\t%s\t%s\n", ...) for one repeat.
DupRow(repeat, fname) ==
    Line("dup", <<repeat.repeat_count, repeat.folding_count,
                  repeat.bytes_wasted, 0, 0, repeat.name, fname>>)

\* wprintf(L"%u\t%u\t%6llu\t%u\t%s\t%s\n", ...) for one large symbol.
LargeRow(s, fname) ==
    Line("large", <<0, 0, s.size, s.section, s.name, fname>>)

\* One external COM / DIA2 call and whether it succeeded.
Call(api, ok) ==
    [api |-> api, ok |-> ok]

-----------------------------------------------------------------------------
\* The scan of DumpInterestingGlobals

\* The inner while loop's condition for the record at k, p being the run's start.
SameNameAndSize(syms, p, k) ==
    /\ syms[p].size = syms[k].size
    /\ StringCompare(syms[p].name, syms[k].name) = 0

\* pScan when the inner while loop ends.
RunEnd(syms, p) ==
    CHOOSE e \in (p + 1)..(Len(syms) + 1) :
        /\ \A k \in p..(e - 1) : SameNameAndSize(syms, p, k)
        /\ e = Len(syms) + 1 \/ ~SameNameAndSize(syms, p, e)

\* folding_count when the inner while loop ends.
FoldingMatches(syms, p, pScan) ==
    Cardinality({ k \in p..(pScan - 1) :
                    syms[k].offset = syms[p].offset /\ syms[p].offset # 0 })

\* A scan that forgets --folding_count.
ExcessFoldingNoDecrement(matches) ==
    matches

\* --folding_count
ExcessFolding(matches) ==
    matches - 1

\* excess_count: repeat_count is size_t and folding_count is int, so the
\* subtraction is done on size_t; its result is this difference when >= 0.
ExcessCount(show, repeat_count, folding_count) ==
    IF show THEN repeat_count ELSE repeat_count - folding_count

\* if (bytes_wasted > kWastageThreshold)
Reportable(bytes_wasted) ==
    bytes_wasted > kWastageThreshold

\* The locals of the outer loop's iteration that starts at p.
ScanRun(syms, p, show) ==
    LET pScan   == RunEnd(syms, p)
        count   == pScan - p
        matches == FoldingMatches(syms, p, pScan)
        repeat_count  == count - 1
        folding_count == ExcessFolding(matches)
        excess_count  == ExcessCount(show, repeat_count, folding_count)
        bytes_wasted  == excess_count * syms[p].size
    IN  IF count > 1
        THEN [name |-> syms[p].name, size |-> syms[p].size, count |-> count,
              offsets |-> [k \in 1..count |-> syms[p + k - 1].offset],
              repeat_count |-> repeat_count, folding_count |-> folding_count,
              excess_count |-> excess_count, bytes_wasted |-> bytes_wasted,
              emitted |-> Reportable(bytes_wasted)]
        ELSE [name |-> syms[p].name, size |-> syms[p].size, count |-> count,
              offsets |-> <<syms[p].offset>>,
              repeat_count |-> count, folding_count |-> matches,
              excess_count |-> 0, bytes_wasted |-> 0, emitted |-> FALSE]

\* The outer for loop from p to symbols.end(): one entry per iteration.
RECURSIVE ScanFrom(_, _, _)
ScanFrom(syms, p, show) ==
    IF p > Len(syms)
    THEN <<>>
    ELSE <<ScanRun(syms, p, show)>> \o ScanFrom(syms, RunEnd(syms, p), show)

\* repeats after the scan: one RepeatData per iteration that pushed one.
RECURSIVE PushedRepeats(_)
PushedRepeats(rs) ==
    IF rs = <<>>
    THEN <<>>
    ELSE LET r == Head(rs)
         IN  (IF r.emitted
              THEN <<RepeatData(r.repeat_count, r.folding_count,
                                r.bytes_wasted, r.name)>>
              ELSE <<>>) \o PushedRepeats(Tail(rs))

\* A threshold test that also stops at a symbol of exactly kBigSizeThreshold.
BelowBigThresholdInclusive(size) ==
    size <= kBigSizeThreshold

\* if (s.size < kBigSizeThreshold) break;
BelowBigThreshold(size) ==
    size < kBigSizeThreshold

\* The rows of the large-symbol loop over syms, which breaks at the first
\* symbol below the threshold.
RECURSIVE LargeRows(_, _)
LargeRows(syms, fname) ==
    IF syms = <<>> \/ BelowBigThreshold(Head(syms).size)
    THEN <<>>
    ELSE <<LargeRow(Head(syms), fname)>> \o LargeRows(Tail(syms), fname)

\* One row per repeat, in order.
DupRows(rs, fname) ==
    [k \in 1..Len(rs) |-> DupRow(rs[k], fname)]

\* How many lines of the given kind were written.
CountLines(lines, kind) ==
    Cardinality({ k \in 1..Len(lines) : lines[k].kind = kind })

-----------------------------------------------------------------------------
\* wmain

Init ==
    /\ pc = "parse"
    /\ argv \in ArgVectors
    /\ i = 0
    /\ show_folded_constants = FALSE
    /\ filename = NoFile
    /\ calls = <<>>
    /\ out = <<>>
    /\ exit_code = Running
    /\ symbols = <<>>
    /\ runs = <<>>
    /\ repeats = <<>>

\* for (int i = 0; i < argc; ++i): one iteration. argv[i] is argv[i + 1] here.
ParseArg ==
    /\ pc = "parse"
    /\ i < Len(argv)
    /\ IF argv[i + 1] = FLAG
       THEN /\ show_folded_constants' = TRUE
            /\ UNCHANGED filename
       ELSE /\ filename' = argv[i + 1]
            /\ UNCHANGED show_folded_constants
    /\ i' = i + 1
    /\ UNCHANGED <<pc, argv, calls, out, exit_code, symbols, runs, repeats>>

\* if (!filename) { usage; return -1; }
CheckFilename ==
    /\ pc = "parse"
    /\ i = Len(argv)
    /\ IF filename = NoFile
       THEN /\ out' = Append(out, Line("usage", <<>>))
            /\ exit_code' = -1
            /\ pc' = "exit"
       ELSE /\ pc' = "coinit"
            /\ UNCHANGED <<out, exit_code>>
    /\ UNCHANGED <<argv, i, show_folded_constants, filename, calls, symbols,
                   runs, repeats>>

\* An external call that fails: its diagnostic is printed and wmain returns code.
FailWith(api, kind, code) ==
    /\ calls' = Append(calls, Call(api, FALSE))
    /\ out' = Append(out, Line(kind, <<>>))
    /\ exit_code' = code
    /\ pc' = "exit"

\* An external call that succeeds.
Proceed(api, next) ==
    /\ calls' = Append(calls, Call(api, TRUE))
    /\ pc' = next
    /\ UNCHANGED <<out, exit_code>>

\* HRESULT hr = CoInitialize(NULL); on failure "return false", which is 0.
CoInit ==
    /\ pc = "coinit"
    /\ \/ FailWith("CoInitialize", "CoInitialize failed", 0)
       \/ Proceed("CoInitialize", "create")
    /\ UNCHANGED <<argv, i, show_folded_constants, filename, symbols, runs,
                   repeats>>

\* Initialize: CoCreateInstance; wmain returns -1 when Initialize fails.
CreateSource ==
    /\ pc = "create"
    /\ \/ FailWith("CoCreateInstance", "Failed to initialized DIA2", -1)
       \/ Proceed("CoCreateInstance", "load")
    /\ UNCHANGED <<argv, i, show_folded_constants, filename, symbols, runs,
                   repeats>>

\* Initialize: source->loadDataFromPdb(filename)
LoadDataFromPdb ==
    /\ pc = "load"
    /\ \/ FailWith("loadDataFromPdb", "LoadDataFromPdb failed", -1)
       \/ Proceed("loadDataFromPdb", "open")
    /\ UNCHANGED <<argv, i, show_folded_constants, filename, symbols, runs,
                   repeats>>

\* Initialize: source->openSession(&session)
OpenSession ==
    /\ pc = "open"
    /\ \/ FailWith("openSession", "OpenSession failed", -1)
       \/ Proceed("openSession", "scope")
    /\ UNCHANGED <<argv, i, show_folded_constants, filename, symbols, runs,
                   repeats>>

\* Initialize: session->get_globalScope(&global)
GetGlobalScope ==
    /\ pc = "scope"
    /\ \/ FailWith("get_globalScope", "Get_globalScope failed", -1)
       \/ Proceed("get_globalScope", "dump")
    /\ UNCHANGED <<argv, i, show_folded_constants, filename, symbols, runs,
                   repeats>>

-----------------------------------------------------------------------------
\* DumpInterestingGlobals

\* The header line, then global->findChildren(SymTagData, ...). The function's
\* result is ignored by wmain, which goes on to CoUninitialize.
FindChildren ==
    /\ pc = "dump"
    /\ \/ /\ calls' = Append(calls, Call("findChildren", FALSE))
          /\ out' = out \o <<HeaderLine, Line("ERROR - no symbols", <<>>)>>
          /\ pc' = "uninit"
       \/ /\ calls' = Append(calls, Call("findChildren", TRUE))
          /\ out' = Append(out, HeaderLine)
          /\ pc' = "enum"
    /\ UNCHANGED <<argv, i, show_folded_constants, filename, exit_code,
                   symbols, runs, repeats>>

\* One iteration of the enumeration loop that changes the state: the symbol is
\* static and either get_type fails ("Get_type failed.") or the record is
\* pushed. (A symbol that is skipped silently leaves the state as it is.)
EnumNext ==
    /\ pc = "enum"
    /\ Len(symbols) + CountLines(out, "Get_type failed") < MaxSymbols
    /\ \/ /\ out' = Append(out, Line("Get_type failed", <<>>))
          /\ UNCHANGED symbols
       \/ /\ \E size \in Sizes, section \in Sections, offset \in Offsets,
                name \in Names :
                symbols' = Append(symbols,
                                  SymbolData(size, section, offset, name))
          /\ UNCHANGED out
    /\ UNCHANGED <<pc, argv, i, show_folded_constants, filename, calls,
                   exit_code, runs, repeats>>

\* The enumeration ends; std::sort(symbols.begin(), symbols.end(), NameCompare)
SortByName ==
    /\ pc = "enum"
    /\ symbols' \in SortedByName(symbols)
    /\ pc' = "scan"
    /\ UNCHANGED <<argv, i, show_folded_constants, filename, calls, out,
                   exit_code, runs, repeats>>

\* for (auto p = symbols.begin(); p != symbols.end();) { ... }
ScanDuplicates ==
    /\ pc = "scan"
    /\ runs' = ScanFrom(symbols, 1, show_folded_constants)
    /\ repeats' = PushedRepeats(runs')
    /\ pc' = "dups"
    /\ UNCHANGED <<argv, i, show_folded_constants, filename, calls, out,
                   exit_code, symbols>>

\* std::sort(repeats); std::reverse(repeats); one row per repeat; a blank line.
PrintDuplicates ==
    /\ pc = "dups"
    /\ \E sorted \in SortedByWaste(repeats) :
          /\ repeats' = Reverse(sorted)
          /\ out' = out \o DupRows(repeats', filename) \o <<Line("blank", <<>>)>>
    /\ pc' = "large"
    /\ UNCHANGED <<argv, i, show_folded_constants, filename, calls, exit_code,
                   symbols, runs>>

\* std::sort(symbols, SizeCompare); std::reverse(symbols); rows down to the
\* first symbol below kBigSizeThreshold; return true.
PrintLarge ==
    /\ pc = "large"
    /\ \E sorted \in SortedBySize(symbols) :
          /\ symbols' = Reverse(sorted)
          /\ out' = out \o LargeRows(symbols', filename)
    /\ pc' = "uninit"
    /\ UNCHANGED <<argv, i, show_folded_constants, filename, calls, exit_code,
                   runs, repeats>>

\* CoUninitialize(); wmain ends without a return statement: exit code 0.
CoUninit ==
    /\ pc = "uninit"
    /\ calls' = Append(calls, Call("CoUninitialize", TRUE))
    /\ exit_code' = 0
    /\ pc' = "exit"
    /\ UNCHANGED <<argv, i, show_folded_constants, filename, out, symbols,
                   runs, repeats>>

Next ==
    \/ ParseArg
    \/ CheckFilename
    \/ CoInit
    \/ CreateSource
    \/ LoadDataFromPdb
    \/ OpenSession
    \/ GetGlobalScope
    \/ FindChildren
    \/ EnumNext
    \/ SortByName
    \/ ScanDuplicates
    \/ PrintDuplicates
    \/ PrintLarge
    \/ CoUninit

Spec == Init /\ [][Next]_vars

-----------------------------------------------------------------------------
\* Vocabulary of the properties

\* The scan loop has run on the name-sorted symbols.
ScanDone ==
    pc = "dups" \/ CountLines(out, "blank") > 0

\* The large-symbol rows have been written.
LargeDone ==
    pc \in {"uninit", "exit"} /\ CountLines(out, "blank") > 0

\* The large-symbol rows, in the order written.
LargeLines ==
    SelectSeq(out, LAMBDA l : l.kind = "large")

\* The scan iterations that found at least two records.
DuplicateRuns ==
    { k \in 1..Len(runs) : runs[k].count >= 2 }

\* The scan iterations that pushed a RepeatData.
EmittedRuns ==
    { k \in 1..Len(runs) : runs[k].emitted }

\* How many records of symbols have this name and size.
CountOf(name, size) ==
    Cardinality({ k \in 1..Len(symbols) :
                    symbols[k].name = name /\ symbols[k].size = size })

\* The RepeatData an emitting iteration pushes.
RepeatOf(r) ==
    RepeatData(r.repeat_count, r.folding_count, r.bytes_wasted, r.name)

\* The duplicate groups a sequence of RepeatData holds, order apart.
GroupsOf(rs) ==
    { rs[k] : k \in 1..Len(rs) }

\* (size, name) of each row the large-symbol loop writes for syms.
SizeNameRows(syms) ==
    LET rows == LargeRows(syms, filename)
    IN  [k \in 1..Len(rows) |-> <<rows[k].fields[3], rows[k].fields[5]>>]

\* Of a run's excess instances, those at the first record's non-zero offset.
FoldedExcess(r) ==
    Cardinality({ k \in 2..r.count :
                    r.offsets[k] = r.offsets[1] /\ r.offsets[1] # 0 })

\* argv holds no file path: only the program name and, maybe, the flag.
NoPositionalArgument ==
    \A k \in 2..Len(argv) : argv[k] = FLAG

\* The calls on the path from wmain to the analysis.
InitApis ==
    { "CoInitialize", "CoCreateInstance", "loadDataFromPdb", "openSession",
      "get_globalScope" }

\* One of the initialization calls failed.
InitFailed ==
    \E k \in 1..Len(calls) : calls[k].api \in InitApis /\ ~calls[k].ok

\* The diagnostic lines of the initialization failures.
InitDiagnostics ==
    { "CoInitialize failed", "Failed to initialized DIA2",
      "LoadDataFromPdb failed", "OpenSession failed",
      "Get_globalScope failed" }

-----------------------------------------------------------------------------
\* Properties

\* C1: order independence. Whatever order the name sort leaves the records
\* in, the scan yields the same set of duplicate groups (name, repeat_count,
\* folding_count, bytes_wasted), and whatever order the size sort leaves them
\* in, the large-symbol rows are the same sequence of (size, name).
C1_OrderIndependent ==
    /\ pc = "dups" =>
          \A other \in SortedByName(symbols) :
              GroupsOf(PushedRepeats(ScanFrom(other, 1, show_folded_constants)))
                  = GroupsOf(repeats)
    /\ LargeDone =>
          \A other \in SortedBySize(symbols) :
              SizeNameRows(Reverse(other)) = SizeNameRows(symbols)

\* C2: folding exclusion. In every run of n >= 2 records, folding_count is the
\* number k of excess instances at the first record's non-zero offset;
\* bytes_wasted is (n - 1 - k) * size without the flag and (n - 1) * size with
\* it; a zero offset never counts as a match.
C2_FoldingExclusion ==
    ScanDone =>
        \A k \in DuplicateRuns :
            LET r == runs[k]
            IN  /\ r.folding_count = FoldedExcess(r)
                /\ r.bytes_wasted =
                      IF show_folded_constants
                      THEN (r.count - 1) * r.size
                      ELSE (r.count - 1 - FoldedExcess(r)) * r.size

\* C3: grouping is exact. Every (name, size) pair of the input is found by
\* exactly one scan iteration, whose run holds all the records of the pair
\* and no other; an iteration pushes a group only for a run of at least two
\* records whose bytes_wasted is above 100, with repeat_count the number of
\* records minus 1; repeats holds exactly the pushed groups.
C3_GroupingExact ==
    ScanDone =>
        /\ \A s \in 1..Len(symbols) :
              \E k \in 1..Len(runs) :
                  /\ runs[k].name = symbols[s].name
                  /\ runs[k].size = symbols[s].size
                  /\ runs[k].count = CountOf(symbols[s].name, symbols[s].size)
                  /\ \A j \in 1..Len(runs) :
                        (runs[j].name = runs[k].name
                            /\ runs[j].size = runs[k].size) => j = k
        /\ \A k \in 1..Len(runs) :
              /\ CountOf(runs[k].name, runs[k].size) = runs[k].count
              /\ runs[k].emitted =>
                    /\ runs[k].count >= 2
                    /\ runs[k].repeat_count = runs[k].count - 1
                    /\ runs[k].bytes_wasted > 100
        /\ Len(repeats) = Cardinality(EmittedRuns)
        /\ \A k \in EmittedRuns :
              \E j \in 1..Len(repeats) : repeats[j] = RepeatOf(runs[k])
        /\ \A j \in 1..Len(repeats) :
              \E k \in EmittedRuns : repeats[j] = RepeatOf(runs[k])

\* C3 witness: a pair of records wasting exactly 100 bytes was scanned and
\* pushed no group, next to a record of the same name and another size.
C3_Witness ==
    /\ ScanDone
    /\ \E k \in DuplicateRuns :
          /\ runs[k].bytes_wasted = 100
          /\ ~runs[k].emitted
          /\ \E j \in 1..Len(runs) :
                runs[j].name = runs[k].name /\ runs[j].size # runs[k].size

\* C4 as stated: consecutive large-symbol rows have strictly decreasing sizes.
C4_StrictlyDescending ==
    LargeDone =>
        \A k \in 1..(Len(LargeLines) - 1) :
            LargeLines[k].fields[3] > LargeLines[k + 1].fields[3]

\* C4 amended: consecutive large-symbol rows never increase in size; two rows
\* of equal size may follow each other.
C4_Descending ==
    LargeDone =>
        \A k \in 1..(Len(LargeLines) - 1) :
            LargeLines[k].fields[3] >= LargeLines[k + 1].fields[3]

\* C4 witness: rows of two different sizes and two rows of one size.
C4_Witness ==
    /\ LargeDone
    /\ Len(LargeLines) = 3
    /\ LargeLines[1].fields[3] > LargeLines[2].fields[3]
    /\ LargeLines[2].fields[3] = LargeLines[3].fields[3]

\* C5: the large-symbol rows are the records of size >= 500, one row per
\* record; a record that alone has its (name, size) and is that large has a
\* row and belongs to no pushed group.
C5_LargeExact ==
    LargeDone =>
        /\ \A size \in Sizes, section \in Sections, name \in Names :
              Cardinality({ k \in 1..Len(LargeLines) :
                              /\ LargeLines[k].fields[3] = size
                              /\ LargeLines[k].fields[4] = section
                              /\ LargeLines[k].fields[5] = name })
                = IF size >= 500
                  THEN Cardinality({ k \in 1..Len(symbols) :
                                       /\ symbols[k].size = size
                                       /\ symbols[k].section = section
                                       /\ symbols[k].name = name })
                  ELSE 0
        /\ \A s \in 1..Len(symbols) :
              (symbols[s].size >= 500
                  /\ CountOf(symbols[s].name, symbols[s].size) = 1) =>
                /\ \E k \in 1..Len(LargeLines) :
                      /\ LargeLines[k].fields[3] = symbols[s].size
                      /\ LargeLines[k].fields[5] = symbols[s].name
                /\ \A k \in EmittedRuns :
                      ~(runs[k].name = symbols[s].name
                          /\ runs[k].size = symbols[s].size)

\* C5 witness: records of size 500 and 499 were enumerated, the first one in a
\* pushed duplicate group, and the rows are the two records of size 500.
C5_Witness ==
    /\ LargeDone
    /\ \E s \in 1..Len(symbols) : symbols[s].size = 499
    /\ \E k \in EmittedRuns : runs[k].size = 500
    /\ Len(LargeLines) = 2

\* C6: in every run of at least two records the decremented folding_count is
\* at most the decremented repeat_count, so repeat_count - folding_count, the
\* size_t subtraction behind excess_count, is never below zero.
C6_FoldingAtMostRepeat ==
    ScanDone =>
        \A k \in DuplicateRuns :
            /\ runs[k].folding_count <= runs[k].repeat_count
            /\ ExcessCount(FALSE, runs[k].repeat_count,
                           runs[k].folding_count) >= 0
            /\ runs[k].excess_count >= 0

\* C6 witness: without the flag, a run of three records that all share one
\* non-zero offset: folding_count equals repeat_count.
C6_Witness ==
    /\ ScanDone
    /\ ~show_folded_constants
    /\ \E k \in DuplicateRuns :
          /\ runs[k].count = 3
          /\ runs[k].folding_count = runs[k].repeat_count

\* C7: with no file path in argv, wmain makes no COM or DIA2 call, and when it
\* has returned it has printed the usage message and its exit code is not 0.
C7_MissingPathUsage ==
    NoPositionalArgument =>
        /\ calls = <<>>
        /\ pc = "exit" =>
              /\ CountLines(out, "usage") = 1
              /\ exit_code # 0

\* C8: when an initialization call has failed, wmain has printed its
\* diagnostic, has not entered DumpInterestingGlobals, and its exit code is
\* not 0.
C8_InitFailureExitsNonZero ==
    (pc = "exit" /\ InitFailed) =>
        /\ \E k \in 1..Len(out) : out[k].kind \in InitDiagnostics
        /\ CountLines(out, "header") = 0
        /\ exit_code # 0

\* C9: every duplicate row and every large-symbol row has as many fields as
\* the header, with the symbol name in the sixth field and the PDB name in the
\* seventh; the fourth and fifth hold two zeros in a duplicate row and the
\* size and the section in a large-symbol row.
C9_ColumnsCompatible ==
    \A k \in 1..Len(out) :
        LET f == out[k].fields
        IN  /\ out[k].kind = "dup" =>
                  /\ Len(f) = Len(HeaderLine.fields)
                  /\ f[4] = 0 /\ f[5] = 0
                  /\ f[6] \in Names
                  /\ f[7] = filename
            /\ out[k].kind = "large" =>
                  /\ Len(f) = Len(HeaderLine.fields)
                  /\ f[4] \in Sizes
                  /\ f[5] \in Sections
                  /\ f[6] \in Names
                  /\ f[7] = filename

\* C10: wastage never counts the first instance. In every run of n >= 2
\* records folding_count is >= 0 and bytes_wasted is at most (n - 1) * size,
\* and the bytes wasted without the flag are at most those with it.
C10_FirstInstanceNotCounted ==
    ScanDone =>
        \A k \in DuplicateRuns :
            LET r == runs[k]
            IN  /\ r.folding_count >= 0
                /\ r.bytes_wasted <= (r.count - 1) * r.size
                /\ ExcessCount(FALSE, r.repeat_count, r.folding_count) * r.size
                      <= ExcessCount(TRUE, r.repeat_count, r.folding_count)
                            * r.size

=============================================================================
